---------------------------- MODULE Spec2Model ----------------------------
(***************************************************************************)
(* waymo2bag: conversion of Waymo tfrecord units into rosbag logs.         *)
(*                                                                         *)
(* The model follows src/waymo2bag/waymo2bag.py: Waymo2Bag.convert loops   *)
(* over the units, convert_tfrecord2bag opens one bag per unit and writes  *)
(* the messages of every frame in the order odometry, static transform,    *)
(* point clouds, images, camera info.  A Python exception is the record    *)
(* exc; it leaves the frame loop through the finally clause (which closes  *)
(* the bag) and then leaves convert.                                       *)
(*                                                                         *)
(* A decoded frame is immutable.  Its fields are drawn when the first      *)
(* writer reads them (an unread field is Unread); this reaches the same    *)
(* behaviours as drawing the whole frame when it is parsed.                *)
(*                                                                         *)
(* Optional values (Python None) are sequences of length 0 or 1.           *)
(***************************************************************************)
EXTENDS Integers, Sequences, FiniteSets, TLC

VARIABLES
    pc,                \* position in convert / convert_tfrecord2bag
    num_units,         \* len(self.tfrecord_pathnames): the units found by glob
    file_idx,          \* i of convert's loop
    num_frames,        \* len(dataset) of the unit being converted
    frame_idx,         \* frame_idx of the frame loop
    frame,             \* the decoded frame (fields read so far)
    dataset,           \* timestamp_micros of the frames decoded so far in this unit
    static_tf_message, \* self.static_tf_message
    rosbag,            \* one handle per bag opened so far: [open, closes]
    bag,               \* the messages written to the bag opened last
    exc,               \* the exception being propagated, NoExc if none
    FILTER_NO_LABEL_ZONE_POINTS, \* the module-level switch
    range_image,       \* input of a stand-alone range image conversion
    ret                \* its result (None before the conversion)

vars == <<pc, num_units, file_idx, num_frames, frame_idx, frame, dataset,
          static_tf_message, rosbag, bag, exc, FILTER_NO_LABEL_ZONE_POINTS,
          range_image, ret>>

convVars == <<pc, num_units, file_idx, num_frames, frame_idx, frame, dataset,
              static_tf_message, rosbag, bag, exc>>

(***************************************************************************)
(* Bounds of the model.                                                    *)
(***************************************************************************)
MaxUnits  == 2   \* units (tfrecord files) of one run
MaxFrames == 2   \* frames of one unit
MaxCells  == 3   \* pixels of a range image converted stand-alone

(***************************************************************************)
(* Optional values and small helpers.                                      *)
(***************************************************************************)
None    == <<>>
Some(v) == <<v>>
Unread  == <<>>

RECURSIVE Flatten(_)
\* the concatenation of a sequence of sequences
Flatten(ss) == IF ss = <<>> THEN <<>> ELSE Head(ss) \o Flatten(Tail(ss))

RECURSIVE SortedSeq(_)
\* sorted(S) for a finite set of integers
SortedSeq(S) ==
    IF S = {} THEN <<>>
    ELSE LET m == CHOOSE x \in S : \A y \in S : x <= y
         IN  <<m>> \o SortedSeq(S \ {m})

(***************************************************************************)
(* dataset_pb2.LaserName and the configuration of the module.              *)
(***************************************************************************)
TOP   == 1
FRONT == 2
LaserNames == {TOP, FRONT}

SELECTED_LIDAR_SENSOR == {TOP}

ri_indexes == <<0, 1>>

(***************************************************************************)
(* rospy.Time.from_sec(frame.timestamp_micros * 1e-6): seconds and         *)
(* nanoseconds.                                                            *)
(***************************************************************************)
Stamps == {999999, 1000000}

from_sec_nsecs_only(micros) == [secs |-> 0, nsecs |-> (micros % 1000000) * 1000]

from_sec(micros) ==
    [secs |-> micros \div 1000000, nsecs |-> (micros % 1000000) * 1000]

\* rospy.Time comparison
TimeLe(a, b) == a.secs < b.secs \/ (a.secs = b.secs /\ a.nsecs <= b.nsecs)

(***************************************************************************)
(* 4x4 transforms.  A protobuf transform is a flat list of numbers;        *)
(* np.array(...).reshape(4, 4) raises ValueError unless it has 16 of them. *)
(***************************************************************************)
reshape_ok(flat) == Len(flat) = 16

reshape(flat) == [r \in 1..4 |-> [c \in 1..4 |-> flat[4 * (r - 1) + c]]]

matmul(A, B) ==
    [r \in 1..4 |-> [c \in 1..4 |->
        A[r][1] * B[1][c] + A[r][2] * B[2][c] + A[r][3] * B[3][c] + A[r][4] * B[4][c]]]

camera_to_image ==
    << << 0,  0, 1, 0>>,
       <<-1,  0, 0, 0>>,
       << 0, -1, 0, 0>>,
       << 0,  0, 0, 1>> >>

\* translation_from_matrix reads the last column; quaternion_from_matrix reads
\* the 3x3 block and M[3,3].  The quaternion is kept as the entries it is
\* computed from.
to_transform(from_frame_id, to_frame_id, stamp, trans_mat) ==
    [frame_id       |-> from_frame_id,
     child_frame_id |-> to_frame_id,
     stamp          |-> stamp,
     translation    |-> <<trans_mat[1][4], trans_mat[2][4], trans_mat[3][4]>>,
     rotation       |-> << <<trans_mat[1][1], trans_mat[1][2], trans_mat[1][3]>>,
                           <<trans_mat[2][1], trans_mat[2][2], trans_mat[2][3]>>,
                           <<trans_mat[3][1], trans_mat[3][2], trans_mat[3][3]>>,
                           trans_mat[4][4] >>]

ZeroTime == [secs |-> 0, nsecs |-> 0]

\* Extrinsics a front camera calibration may carry: the identity, a shifted
\* one, one that differs from the identity in the bottom row only, and a
\* malformed (empty) one.
ExtIdentity == <<1,0,0,0, 0,1,0,0, 0,0,1,0, 0,0,0,1>>
ExtShifted  == <<1,0,0,2, 0,1,0,0, 0,0,1,0, 0,0,0,1>>
ExtBottom   == <<1,0,0,0, 0,1,0,0, 0,0,1,0, 1,0,0,1>>
ExtEmpty    == <<>>

\* frame.context.camera_calibrations restricted to the front camera: no
\* record, or one record with its extrinsic.
CameraCalibrations ==
    {<<>>} \cup {<<[name |-> "front", extrinsic |-> e]>> :
                    e \in {ExtIdentity, ExtShifted, ExtBottom, ExtEmpty}}


(***************************************************************************)
(* Range images.  An image is a sequence of rows, a row a sequence of      *)
(* pixels, a pixel the tuple of its four channels <<range, intensity,      *)
(* elongation, no-label-zone>> (channel k of the source is component k+1). *)
(***************************************************************************)
Ranges      == {-1, 0, 5}
Intensities == {3, 4}
NlzFlags    == {-1, 1}

Pixels == {<<r, i, 0, z>> : r \in Ranges, i \in Intensities, z \in NlzFlags}

Shapes(cells) == {hw \in (1..cells) \X (1..cells) : hw[1] * hw[2] <= cells}

ImagesOf(pixels, cells) ==
    {<<>>} \cup UNION {[1..hw[1] -> [1..hw[2] -> pixels]] : hw \in Shapes(cells)}

\* range_image_tensor[..., 0] > 0
range_mask(image) ==
    [r \in DOMAIN image |-> [c \in DOMAIN image[r] |-> image[r][c][1] > 0]]

\* range_image_tensor[..., 3] != 1.0
nlz_mask(image) ==
    [r \in DOMAIN image |-> [c \in DOMAIN image[r] |-> image[r][c][4] # 1]]

mask_and(a, b) ==
    [r \in DOMAIN a |-> [c \in DOMAIN a[r] |-> a[r][c] /\ b[r][c]]]

\* the mask of lines 362-367
range_image_mask(image, filter) ==
    IF filter THEN mask_and(range_mask(image), nlz_mask(image))
    ELSE range_mask(image)

RECURSIVE where_row(_, _, _)
\* the true positions of row r from column c on, left to right
where_row(mask, r, c) ==
    IF c > Len(mask[r]) THEN <<>>
    ELSE (IF mask[r][c] THEN << <<r, c>> >> ELSE <<>>) \o where_row(mask, r, c + 1)

RECURSIVE where_from(_, _)
\* tf.where(mask): the indices of the true entries in row-major order
where_from(mask, r) ==
    IF r > Len(mask) THEN <<>>
    ELSE where_row(mask, r, 1) \o where_from(mask, r + 1)

where(mask) == where_from(mask, 1)

\* tf.gather_nd(tensor, indices)
gather_nd(tensor, indices) ==
    [k \in 1..Len(indices) |-> tensor[indices[k][1]][indices[k][2]]]

\* extract_point_cloud_from_range_image: one Cartesian point per pixel, a
\* function of the pixel's range, its row (inclination) and its column
\* (azimuth); kept as that triple.
range_image_cartesian(image) ==
    [r \in DOMAIN image |-> [c \in DOMAIN image[r] |->
        [row |-> r, col |-> c, range |-> image[r][c][1]]]]

\* channel 1 of the range image
intensity_channel(image) ==
    [r \in DOMAIN image |-> [c \in DOMAIN image[r] |-> image[r][c][2]]]

\* the mask the intensities are gathered with (line 386 reuses range_image_mask)
intensity_mask_unfiltered(image, filter) == range_mask(image)

intensity_mask(image, filter) == range_image_mask(image, filter)

\* lines 362-387 for one (sensor, return): the two arrays appended to ret_dict
convert_one(image, filter) ==
    [points    |-> gather_nd(range_image_cartesian(image),
                             where(range_image_mask(image, filter))),
     intensity |-> gather_nd(intensity_channel(image),
                             where(intensity_mask(image, filter)))]

(***************************************************************************)
(* convert_range_image_to_point_cloud.  range_images[name] is the list of  *)
(* range images of a laser (first return, second return); the empty list   *)
(* stands for a name that is no key of the dict.  The result is the        *)
(* exception type raised ("None" if none) and ret_dict, a defaultdict(list)*)
(* given as a total function on its keys.                                  *)
(***************************************************************************)
RetKeys == {"points", "intensity"} \X LaserNames \X {0, 1}

EmptyRet == [k \in RetKeys |-> <<>>]

\* the calibration records the conversion loops over (line 320, line 339)
calibrations_selected_only(laser_calibrations) ==
    SortedSeq(laser_calibrations \cap SELECTED_LIDAR_SENSOR)

calibrations(laser_calibrations) == SortedSeq(laser_calibrations)

RECURSIVE convert_loop(_, _, _, _, _)
\* the loops of lines 339-387 from calibration k, return index position j on
convert_loop(cs, k, j, range_images, acc) ==
    IF k > Len(cs) THEN [err |-> "None", ret |-> acc]
    ELSE IF j > Len(ri_indexes) THEN convert_loop(cs, k + 1, 1, range_images, acc)
    ELSE LET name     == cs[k]
             ri_index == ri_indexes[j]
         IN  IF Len(range_images[name]) = 0 THEN [err |-> "KeyError", ret |-> acc]
             ELSE IF ri_index + 1 > Len(range_images[name])
                  THEN [err |-> "IndexError", ret |-> acc]
             ELSE LET one == convert_one(range_images[name][ri_index + 1],
                                         FILTER_NO_LABEL_ZONE_POINTS)
                      pk  == <<"points", name, ri_index>>
                      ik  == <<"intensity", name, ri_index>>
                  IN  convert_loop(cs, k, j + 1, range_images,
                          [acc EXCEPT ![pk] = Append(@, one.points),
                                      ![ik] = Append(@, one.intensity)])

convert_range_image_to_point_cloud(laser_calibrations, range_images, range_image_top_pose) ==
    IF range_image_top_pose = None
    THEN [err |-> "AttributeError", ret |-> EmptyRet]
    ELSE convert_loop(calibrations(laser_calibrations), 1, 1, range_images, EmptyRet)

\* np.concatenate(list_of_arrays, axis=0) raises ValueError on an empty list
concatenate_never_fails(arrays) == FALSE

concatenate_fails_without_points(arrays) == Flatten(arrays) = <<>>

concatenate_fails(arrays) == arrays = <<>>

concatenate(arrays) == Flatten(arrays)

(***************************************************************************)
(* The inputs a frame may carry.                                           *)
(***************************************************************************)
PoseIdentity == ExtIdentity

\* frame.pose.transform: well formed, or empty
Poses == {PoseIdentity, <<>>}

\* the range images of one frame are 1x1: a pixel without a return or a hit.
\* The points of a laser outside SELECTED_LIDAR_SENSOR are never written, so
\* its images are drawn without a hit only.
NoReturn == <<0, 3, 0, -1>>
Hit      == <<5, 4, 0, -1>>
FrameImages(name) ==
    IF name \in SELECTED_LIDAR_SENSOR
    THEN { << <<NoReturn>> >>, << <<Hit>> >> }
    ELSE { << <<NoReturn>> >> }

\* the lists of range images a laser may have: none, the first return, or
\* both returns
ImageLists(name) == {<<>>} \cup UNION {[1..n -> FrameImages(name)] : n \in 1..2}

\* what parse_range_image_and_camera_projection yields for the lasers: for
\* every laser name the list of its range images
RangeImageDicts ==
    {d \in [LaserNames -> UNION {ImageLists(name) : name \in LaserNames}] :
        \A name \in LaserNames : d[name] \in ImageLists(name)}

\* frame.images restricted to the front camera: none, a decodable one, or one
\* cv2.imdecode cannot decode
FrontImages == {<<>>, <<"jpeg">>, <<"garbage">>}

\* camera_calibration.intrinsic: the nine parameters, or too short a list
Intrinsics == {<<1, 1, 0, 0, 0, 0, 0, 0, 0>>, <<1, 1>>}

NoFrame ==
    [timestamp_micros    |-> 0,
     camera_calibrations |-> <<>>,
     pose                |-> Unread,
     laser_calibrations  |-> Unread,
     range_images        |-> Unread,
     images              |-> Unread,
     intrinsic           |-> Unread]

(***************************************************************************)
(* Exceptions and bag handles.                                             *)
(***************************************************************************)
NoExc == [type |-> "None", at |-> "None"]

Exc(type, at) == [type |-> type, at |-> at]

\* rosbag.Bag(...)
bag_open == [open |-> TRUE, closes |-> 0]

\* bag.close()
bag_close_skipped(b) == b

bag_close(b) == [open |-> FALSE, closes |-> b.closes + 1]

\* bag.write(topic, msg, t): the record kept of a message; width is the
\* number of points of a point cloud and 0 for the other messages
Msg(topic, t, width) ==
    [topic |-> topic, t |-> t, frame_idx |-> frame_idx, width |-> width]

\* a statement raises: the try block is left for the finally clause
Raise(type) ==
    /\ pc' = "finally"
    /\ exc' = Exc(type, pc)
    /\ UNCHANGED <<num_units, file_idx, num_frames, frame_idx, static_tf_message,
                   rosbag, bag>>

Init ==
    /\ pc = "convert"
    /\ num_units = MaxUnits
    /\ file_idx = 0
    /\ num_frames = 0
    /\ frame_idx = 0
    /\ frame = NoFrame
    /\ dataset = <<>>
    /\ static_tf_message = None
    /\ rosbag = <<>>
    /\ bag = <<>>
    /\ exc = NoExc
    /\ FILTER_NO_LABEL_ZONE_POINTS = FALSE
    /\ range_image = <<>>
    /\ ret = None

geomVars == <<FILTER_NO_LABEL_ZONE_POINTS, range_image, ret>>

(***************************************************************************)
(* convert and convert_tfrecord2bag.                                       *)
(***************************************************************************)
\* lines 61-62, 67-75: the next unit is loaded and its bag opened
LoadUnit ==
    /\ pc = "convert"
    /\ file_idx < num_units
    /\ \E n \in 0..MaxFrames : num_frames' = n
    /\ frame_idx' = 0
    /\ dataset' = <<>>
    /\ frame' = NoFrame
    /\ rosbag' = Append(rosbag, bag_open)
    /\ bag' = <<>>
    /\ pc' = "for_frame"
    /\ UNCHANGED <<num_units, file_idx, static_tf_message, exc, geomVars>>

\* lines 68-69: the unit cannot be read; no bag has been opened and the
\* exception leaves convert
LoadFails ==
    /\ pc = "convert"
    /\ file_idx < num_units
    /\ pc' = "raised"
    /\ exc' = Exc("DataLossError", "load")
    /\ UNCHANGED <<num_units, file_idx, num_frames, frame_idx, frame, dataset,
                   static_tf_message, rosbag, bag, geomVars>>

\* lines 78-82: the next frame is decoded
ParseFrame ==
    /\ pc = "for_frame"
    /\ frame_idx < num_frames
    /\ \E ts \in Stamps, cc \in CameraCalibrations :
          /\ frame' = [NoFrame EXCEPT !.timestamp_micros = ts,
                                      !.camera_calibrations = cc]
          /\ dataset' = Append(dataset, ts)
    /\ pc' = "write_odom"
    /\ UNCHANGED <<num_units, file_idx, num_frames, frame_idx, static_tf_message,
                   rosbag, bag, exc, geomVars>>

\* line 80: ParseFromString raises on a record that is no frame
ParseFails ==
    /\ pc = "for_frame"
    /\ frame_idx < num_frames
    /\ Raise("DecodeError")
    /\ frame' = NoFrame
    /\ UNCHANGED <<dataset, geomVars>>

\* line 78: the dataset is exhausted
EndOfDataset ==
    /\ pc = "for_frame"
    /\ frame_idx = num_frames
    /\ pc' = "finally"
    /\ UNCHANGED <<num_units, file_idx, num_frames, frame_idx, frame, dataset,
                   static_tf_message, rosbag, bag, exc, geomVars>>

timestamp == from_sec(frame.timestamp_micros)

\* lines 93-110
write_odom ==
    /\ pc = "write_odom"
    /\ \E pose \in Poses :
          /\ frame' = [frame EXCEPT !.pose = Some(pose)]
          /\ IF reshape_ok(pose)
             THEN /\ bag' = Append(bag, Msg("/odom", timestamp, 0))
                  /\ pc' = "write_tf_static"
                  /\ UNCHANGED <<num_units, file_idx, num_frames, frame_idx,
                                 static_tf_message, rosbag, exc>>
             ELSE Raise("ValueError")
    /\ UNCHANGED <<dataset, geomVars>>

\* lines 113-133: the TFMessage of a frame, as the list of its transforms
tf_message_of(camera_calibrations) ==
    [k \in 1..Len(camera_calibrations) |->
        to_transform("base_link", camera_calibrations[k].name, ZeroTime,
                     matmul(reshape(camera_calibrations[k].extrinsic), camera_to_image))]

\* line 135
static_tf_is_none_always(s) == TRUE

static_tf_is_none(s) == s = None

\* line 139: the assertion holds
assert_equal_skipped(a, b) == TRUE

assert_equal(a, b) == a = b

\* lines 112-139
write_tf_static ==
    /\ pc = "write_tf_static"
    /\ IF \E k \in 1..Len(frame.camera_calibrations) :
              ~reshape_ok(frame.camera_calibrations[k].extrinsic)
       THEN Raise("ValueError")
       ELSE LET tf_message == tf_message_of(frame.camera_calibrations)
            IN  IF static_tf_is_none(static_tf_message)
                THEN /\ bag' = Append(bag, Msg("/tf_static", timestamp, 0))
                     /\ static_tf_message' = Some(tf_message)
                     /\ pc' = "write_point_cloud"
                     /\ UNCHANGED <<num_units, file_idx, num_frames, frame_idx,
                                    rosbag, exc>>
                ELSE IF assert_equal(static_tf_message, Some(tf_message))
                     THEN /\ pc' = "write_point_cloud"
                          /\ UNCHANGED <<num_units, file_idx, num_frames, frame_idx,
                                         static_tf_message, rosbag, bag, exc>>
                     ELSE Raise("AssertionError")
    /\ UNCHANGED <<frame, dataset, geomVars>>

\* "/lidar/{}/pointcloud".format(lidar_name)
PointCloudTopic(lidar_id) ==
    IF lidar_id = TOP THEN "/lidar/top/pointcloud" ELSE "/lidar/front/pointcloud"

RECURSIVE write_clouds(_, _, _, _)
\* lines 257-277: the loop over SELECTED_LIDAR_SENSOR from its k-th sensor on;
\* the result is the bag after the loop and the exception type raised
write_clouds(selected, k, ret_dict, b) ==
    IF k > Len(selected) THEN [err |-> "None", bag |-> b]
    ELSE LET lidar_id  == selected[k]
             pts_list  == ret_dict[<<"points", lidar_id, 0>>]
                            \o ret_dict[<<"points", lidar_id, 1>>]
             int_list  == ret_dict[<<"intensity", lidar_id, 0>>]
                            \o ret_dict[<<"intensity", lidar_id, 1>>]
         IN  IF concatenate_fails(pts_list) \/ concatenate_fails(int_list)
             THEN [err |-> "ValueError", bag |-> b]
             ELSE LET points    == concatenate(pts_list)
                      intensity == concatenate(int_list)
                  IN  \* np.column_stack needs as many intensities as points
                      IF Len(points) # Len(intensity)
                      THEN [err |-> "ValueError", bag |-> b]
                      ELSE write_clouds(selected, k + 1, ret_dict,
                               Append(b, Msg(PointCloudTopic(lidar_id), timestamp,
                                             Len(points))))

\* lines 224-277
write_point_cloud ==
    /\ pc = "write_point_cloud"
    /\ \E lc \in SUBSET LaserNames, ri \in RangeImageDicts :
          /\ frame' = [frame EXCEPT !.laser_calibrations = Some(lc),
                                    !.range_images = Some(ri)]
          /\ LET range_image_top_pose == IF ri[TOP] = <<>> THEN None ELSE Some("pose")
                 r == convert_range_image_to_point_cloud(lc, ri, range_image_top_pose)
                 w == write_clouds(SortedSeq(SELECTED_LIDAR_SENSOR), 1, r.ret, bag)
             IN  IF r.err # "None" THEN Raise(r.err)
                 ELSE /\ bag' = w.bag
                      /\ pc' = IF w.err = "None" THEN "write_image" ELSE "finally"
                      /\ exc' = IF w.err = "None" THEN exc ELSE Exc(w.err, pc)
                      /\ UNCHANGED <<num_units, file_idx, num_frames, frame_idx,
                                     static_tf_message, rosbag>>
    /\ UNCHANGED <<dataset, geomVars>>

\* lines 167-194
write_image ==
    /\ pc = "write_image"
    /\ \E images \in FrontImages :
          /\ frame' = [frame EXCEPT !.images = Some(images)]
          /\ IF images = <<"garbage">> THEN Raise("cv2.error")
             ELSE /\ bag' = IF images = <<>> THEN bag
                            ELSE Append(bag, Msg("/camera/front/image", timestamp, 0))
                  /\ pc' = "write_camera_info"
                  /\ UNCHANGED <<num_units, file_idx, num_frames, frame_idx,
                                 static_tf_message, rosbag, exc>>
    /\ UNCHANGED <<dataset, geomVars>>

\* lines 196-222; the frame is complete after it and the loop goes on
write_camera_info ==
    /\ pc = "write_camera_info"
    /\ IF frame.camera_calibrations = <<>>
       THEN /\ frame' = frame
            /\ bag' = bag
            /\ frame_idx' = frame_idx + 1
            /\ pc' = "for_frame"
            /\ UNCHANGED <<num_units, file_idx, num_frames, static_tf_message,
                           rosbag, exc>>
       ELSE \E intrinsic \in Intrinsics :
               /\ frame' = [frame EXCEPT !.intrinsic = Some(intrinsic)]
               /\ IF Len(intrinsic) < 4 THEN Raise("IndexError")
                  ELSE /\ bag' = Append(bag, Msg("/camera/front/camera_info", timestamp, 0))
                       /\ frame_idx' = frame_idx + 1
                       /\ pc' = "for_frame"
                       /\ UNCHANGED <<num_units, file_idx, num_frames,
                                      static_tf_message, rosbag, exc>>
    /\ UNCHANGED <<dataset, geomVars>>

\* the finally clause has no except: a pending exception is raised again
propagates_never(e) == FALSE

propagates(e) == e # NoExc

\* line 63
reset_skipped(s) == s

reset_static_tf_message(s) == None

\* lines 89-91, and the return to convert's loop (line 63) or the exception
\* leaving convert
Finally ==
    /\ pc = "finally"
    /\ rosbag' = [rosbag EXCEPT ![Len(rosbag)] = bag_close(@)]
    /\ IF propagates(exc)
       THEN /\ pc' = "raised"
            /\ UNCHANGED <<file_idx, static_tf_message, exc>>
       ELSE /\ pc' = "convert"
            /\ static_tf_message' = reset_static_tf_message(static_tf_message)
            /\ file_idx' = file_idx + 1
            /\ exc' = NoExc
    \* the locals of convert_tfrecord2bag end with the call
    /\ num_frames' = 0
    /\ frame_idx' = 0
    /\ frame' = NoFrame
    /\ dataset' = <<>>
    /\ UNCHANGED <<num_units, bag, geomVars>>

\* line 64: the loop over the units is over
ConvertDone ==
    /\ pc = "convert"
    /\ file_idx = num_units
    /\ pc' = "done"
    /\ UNCHANGED <<num_units, file_idx, num_frames, frame_idx, frame, dataset,
                   static_tf_message, rosbag, bag, exc, geomVars>>

Next ==
    \/ LoadUnit
    \/ LoadFails
    \/ ParseFrame
    \/ ParseFails
    \/ EndOfDataset
    \/ write_odom
    \/ write_tf_static
    \/ write_point_cloud
    \/ write_image
    \/ write_camera_info
    \/ Finally
    \/ ConvertDone

Spec == Init /\ [][Next]_vars

(***************************************************************************)
(* The conversion of one range image on its own, for every image of at     *)
(* most MaxCells pixels and both settings of the no-label-zone switch.     *)
(***************************************************************************)
GeomInit ==
    /\ pc = "convert"
    /\ num_units = 0
    /\ file_idx = 0
    /\ num_frames = 0
    /\ frame_idx = 0
    /\ frame = NoFrame
    /\ dataset = <<>>
    /\ static_tf_message = None
    /\ rosbag = <<>>
    /\ bag = <<>>
    /\ exc = NoExc
    /\ FILTER_NO_LABEL_ZONE_POINTS \in BOOLEAN
    /\ range_image \in ImagesOf(Pixels, MaxCells)
    /\ ret = None

\* lines 362-387 applied to range_image
ConvertRangeImage ==
    /\ ret = None
    /\ ret' = Some(convert_one(range_image, FILTER_NO_LABEL_ZONE_POINTS))
    /\ UNCHANGED <<convVars, FILTER_NO_LABEL_ZONE_POINTS, range_image>>

GeomNext == ConvertRangeImage

GeomSpec == GeomInit /\ [][GeomNext]_vars

(***************************************************************************)
(* Vocabulary of the properties.                                           *)
(***************************************************************************)
\* convert_tfrecord2bag is running on the unit file_idx
InUnit == pc \in {"for_frame", "write_odom", "write_tf_static", "write_point_cloud",
                  "write_image", "write_camera_info", "finally"}

AfterTfStatic == {"write_point_cloud", "write_image", "write_camera_info"}

AfterPointCloud == {"write_image", "write_camera_info"}

\* the step of the current frame that raised, "None" if none did
FailedAt == IF pc = "finally" THEN exc.at ELSE "None"

\* frame holds a frame all of whose messages have been written
FrameCompleted ==
    frame # NoFrame /\ (pc = "for_frame" \/ (pc = "finally" /\ exc = NoExc))

\* write_tf_static of the frame held by frame has returned normally
TfStaticDone ==
    \/ pc \in AfterTfStatic
    \/ FailedAt \in AfterTfStatic
    \/ FrameCompleted

\* write_tf_static of the first frame of the unit has returned normally
FirstTfStaticDone == InUnit /\ (frame_idx >= 1 \/ TfStaticDone)

\* write_point_cloud has read the lasers of the current frame
LasersRead == InUnit /\ frame.laser_calibrations # Unread

\* write_point_cloud of the frame held by frame has returned normally
PointCloudDone ==
    LasersRead /\ (pc \in AfterPointCloud \/ FailedAt \in AfterPointCloud \/ FrameCompleted)

TopicCount(b, topic) == Cardinality({k \in 1..Len(b) : b[k].topic = topic})

\* the messages of frame j in the bag, in write order
FrameMsgs(b, j) == SelectSeq(b, LAMBDA m : m.frame_idx = j)

\* the index in the unit of the frame held by frame
ThisFrame == IF FrameCompleted THEN frame_idx - 1 ELSE frame_idx

ExtrinsicsOk ==
    \A k \in 1..Len(frame.camera_calibrations) :
        reshape_ok(frame.camera_calibrations[k].extrinsic)

\* the static transform message computed from the current frame equals the snapshot
SameAsSnapshot ==
    ExtrinsicsOk /\ static_tf_message = Some(tf_message_of(frame.camera_calibrations))

(***************************************************************************)
(* C1.  /tf_static is written once per unit, by the first frame.           *)
(***************************************************************************)
C1_State ==
    InUnit =>
        /\ TopicCount(bag, "/tf_static") <= 1
        /\ \A k \in 1..Len(bag) : bag[k].topic = "/tf_static" => bag[k].frame_idx = 0
        /\ FirstTfStaticDone =>
              TopicCount(bag, "/tf_static") = 1 /\ static_tf_message # None
        /\ ~FirstTfStaticDone =>
              TopicCount(bag, "/tf_static") = 0 /\ static_tf_message = None

C1_Step ==
    \* a later frame whose message equals the snapshot writes nothing and
    \* raises nothing
    /\ (pc = "write_tf_static" /\ static_tf_message # None /\ SameAsSnapshot)
          => (bag' = bag /\ exc' = NoExc /\ pc' = "write_point_cloud")
    \* once set, the snapshot is not changed while the unit is converted
    /\ (InUnit /\ static_tf_message # None /\ ~(pc = "finally" /\ exc = NoExc))
          => static_tf_message' = static_tf_message

\* C1: within the conversion of one unit /tf_static is written exactly once,
\* by the first frame (as soon as its write_tf_static has run); a later frame
\* whose static transform message equals the snapshot writes nothing to
\* /tf_static and raises no error, and the snapshot, set by the first frame, is
\* not changed by any later frame of the unit.
C1_Thm == [](C1_State) /\ [][C1_Step]_vars

\* the second frame of a unit has passed write_tf_static without writing
C1_Wit ==
    /\ pc = "write_point_cloud"
    /\ frame_idx = 1
    /\ TopicCount(bag, "/tf_static") = 1
    /\ bag[Len(bag)].topic = "/odom"

(***************************************************************************)
(* C2.  A later frame with a different static transform fails hard.        *)
(***************************************************************************)
C2_State ==
    \* no later frame gets past write_tf_static with a different message
    /\ (InUnit /\ TfStaticDone /\ ThisFrame >= 1) => SameAsSnapshot
    /\ (pc = "finally" /\ exc.type = "AssertionError") =>
          /\ exc.at = "write_tf_static"
          /\ frame_idx >= 1
          /\ static_tf_message # None
          /\ ~SameAsSnapshot
          /\ TopicCount(bag, "/tf_static") = 1
          /\ bag[Len(bag)] = Msg("/odom", timestamp, 0)

C2_Step ==
    /\ (pc = "write_tf_static" /\ static_tf_message # None
            /\ ExtrinsicsOk /\ ~SameAsSnapshot)
          => /\ exc' = Exc("AssertionError", "write_tf_static")
             /\ pc' = "finally"
             /\ bag' = bag
             /\ static_tf_message' = static_tf_message
    \* after the failure nothing more is written and no frame is converted
    /\ exc.type = "AssertionError"
          => /\ bag' = bag
             /\ static_tf_message' = static_tf_message
             /\ pc' = "raised"

\* C2: when a frame after the first yields a static transform message that
\* differs from the snapshot of the unit's first frame, write_tf_static raises
\* (AssertionError) for that frame: the snapshot is left unchanged, no second
\* /tf_static message is written, and no later message of that frame or of a
\* later frame of the unit is written.
C2_Thm == [](C2_State) /\ [][C2_Step]_vars

\* the second frame failed the comparison, right after its odometry
C2_Wit ==
    /\ pc = "finally"
    /\ exc = Exc("AssertionError", "write_tf_static")
    /\ frame_idx = 1
    /\ Len(bag) >= 4

(***************************************************************************)
(* C3.  The snapshot is empty when a unit starts.                          *)
(***************************************************************************)
\* C3: for every sequence of units convert processes, the snapshot is empty
\* when a unit's conversion starts, so that the first frame of every unit
\* writes /tf_static into the unit's own log and is not compared with a
\* snapshot of an earlier unit.
C3_Thm ==
    /\ pc = "convert" => static_tf_message = None
    /\ (InUnit /\ ~FirstTfStaticDone) => static_tf_message = None
    /\ (InUnit /\ frame_idx = 0) => exc.type # "AssertionError"
    /\ (InUnit /\ FirstTfStaticDone) =>
          \E k \in 1..Len(bag) : bag[k].topic = "/tf_static" /\ bag[k].frame_idx = 0

\* the first frame of the second unit has written /tf_static into its own log
C3_Wit ==
    /\ file_idx = 1
    /\ Len(rosbag) = 2
    /\ pc = "write_point_cloud"
    /\ frame_idx = 0
    /\ bag[2].topic = "/tf_static"
    /\ static_tf_message # None

(***************************************************************************)
(* C4.  What a failing unit means for the units after it.                  *)
(***************************************************************************)
\* C4 as claimed: the run over the units is best-effort continue; when a
\* frame of unit i raises, the later units are still attempted, so that at
\* the end of convert a log has been opened for every unit.
C4_Claimed ==
    (pc = "raised" /\ exc.at # "load") => Len(rosbag) = num_units

C4_Step ==
    exc # NoExc =>
        /\ exc' = exc
        /\ pc' = "raised"
        /\ file_idx' = file_idx
        /\ Len(rosbag') = Len(rosbag)
        /\ bag' = bag

\* C4, amended: the run over the units stops at the first failure; when a
\* frame of unit i raises, the log of unit i is closed, the exception leaves
\* convert, and no later unit is loaded, opened or converted.
C4_Thm ==
    /\ [](exc # NoExc => pc \in {"finally", "raised"})
    /\ [](pc = "raised" => exc # NoExc /\ Len(rosbag) <= file_idx + 1)
    /\ [][C4_Step]_vars

\* the first of several units failed in a frame; the second was never opened
C4_Wit ==
    /\ pc = "raised"
    /\ exc.at = "write_point_cloud"
    /\ file_idx = 0
    /\ Len(rosbag) = 1
    /\ num_units >= 2

(***************************************************************************)
(* C5.  One unit at a time, frames in order, stamps in order.              *)
(***************************************************************************)
StrictlyIncreasing(seq) == \A j, k \in 1..Len(seq) : j < k => seq[j] < seq[k]

\* C5: a unit's log is closed before the next unit's log is opened; within a
\* unit every message of frame k is written before any message of frame k+1,
\* every message is stamped with the timestamp of its own frame, and when the
\* timestamps of the input frames increase the stamps of the messages are
\* non-decreasing in write order.
C5_Thm ==
    /\ \A k \in 1..Len(rosbag) : rosbag[k].open => k = Len(rosbag)
    /\ pc = "convert" => \A k \in 1..Len(rosbag) : ~rosbag[k].open
    /\ InUnit =>
          /\ Len(rosbag) = file_idx + 1
          /\ \A j, k \in 1..Len(bag) : j < k => bag[j].frame_idx <= bag[k].frame_idx
          /\ \A k \in 1..Len(bag) :
                /\ bag[k].frame_idx + 1 \in 1..Len(dataset)
                /\ bag[k].t = from_sec(dataset[bag[k].frame_idx + 1])
          /\ StrictlyIncreasing(dataset) =>
                \A j, k \in 1..Len(bag) : j < k => TimeLe(bag[j].t, bag[k].t)

\* two frames with increasing timestamps, across a full second, are in the log
C5_Wit ==
    /\ pc = "for_frame"
    /\ frame_idx = 2
    /\ dataset = <<999999, 1000000>>
    /\ bag[1].t = [secs |-> 0, nsecs |-> 999999000]
    /\ bag[Len(bag)].t = [secs |-> 1, nsecs |-> 0]
    /\ bag[Len(bag)].frame_idx = 1

(***************************************************************************)
(* C10.  Every log is closed once; what a log closed on an error holds.    *)
(***************************************************************************)
\* the position of a topic in the order a frame's messages are written in
Rank(topic) ==
    CASE topic = "/odom" -> 1
      [] topic = "/tf_static" -> 2
      [] topic = "/lidar/top/pointcloud" -> 3
      [] topic = "/lidar/front/pointcloud" -> 3
      [] topic = "/camera/front/image" -> 4
      [] topic = "/camera/front/camera_info" -> 5

\* the position of a step of the frame loop in that order
StepRank(at) ==
    CASE at = "for_frame" -> 0
      [] at = "write_odom" -> 1
      [] at = "write_tf_static" -> 2
      [] at = "write_point_cloud" -> 3
      [] at = "write_image" -> 4
      [] at = "write_camera_info" -> 5

Ranks(b, j) == {Rank(FrameMsgs(b, j)[k].topic) : k \in 1..Len(FrameMsgs(b, j))}

\* the ranks every frame j writes up to (not including) rank r, whatever it holds
Mandatory(j, r) == {x \in (IF j = 0 THEN {1, 2, 3} ELSE {1, 3}) : x < r}

\* the messages of frame j are those of the steps before rank r, each step's
\* once, in the order of the steps
FrameWrittenUpTo(b, j, r) ==
    LET ms == FrameMsgs(b, j)
    IN  /\ \A a, c \in 1..Len(ms) : a < c => Rank(ms[a].topic) < Rank(ms[c].topic)
        /\ Mandatory(j, r) \subseteq Ranks(b, j)
        /\ \A x \in Ranks(b, j) : x < r /\ (x = 2 => j = 0)

C10_State ==
    /\ \A k \in 1..Len(rosbag) :
          /\ rosbag[k].closes <= 1
          /\ rosbag[k].open <=> rosbag[k].closes = 0
          /\ rosbag[k].open => k = Len(rosbag)
    /\ pc \in {"convert", "done", "raised"} =>
          \A k \in 1..Len(rosbag) : ~rosbag[k].open /\ rosbag[k].closes = 1
    /\ InUnit => rosbag[Len(rosbag)].open
    \* the log when a frame has raised
    /\ (pc = "finally" /\ exc # NoExc) =>
          /\ \A j \in 0..(frame_idx - 1) : FrameWrittenUpTo(bag, j, 6)
          /\ FrameWrittenUpTo(bag, frame_idx, StepRank(exc.at))
          /\ \A k \in 1..Len(bag) : bag[k].frame_idx <= frame_idx
          /\ \A j, k \in 1..Len(bag) : j < k => bag[j].frame_idx <= bag[k].frame_idx

C10_Step ==
    \* closing does not touch the messages, and a closed log is not written to
    /\ pc = "finally" => bag' = bag
    /\ (Len(rosbag) > 0 /\ ~rosbag[Len(rosbag)].open /\ Len(rosbag') = Len(rosbag))
          => bag' = bag
    \* a handle once closed stays closed
    /\ \A k \in 1..Len(rosbag) : ~rosbag[k].open => rosbag'[k] = rosbag[k]

\* C10: every log convert_tfrecord2bag opens is closed exactly once, on the
\* normal path and when a frame raises; a closed log is not written to, at
\* most one log is open at a time, and the log closed after an error in frame
\* k holds all messages of the frames before k and the messages of frame k
\* written before the failing step, in the order odometry, static transform,
\* point clouds, images, camera info.
C10_Thm == [](C10_State) /\ [][C10_Step]_vars

\* a log closed after the second frame failed in write_image: it holds the
\* first frame and the second frame's odometry and point cloud
C10_Wit ==
    /\ pc = "raised"
    /\ exc.at = "write_image"
    /\ rosbag[Len(rosbag)].closes = 1
    /\ Len(bag) >= 5
    /\ bag[Len(bag)].topic = "/lidar/top/pointcloud"
    /\ bag[Len(bag)].frame_idx = 1
    /\ bag[Len(bag) - 1].topic = "/odom"

(***************************************************************************)
(* C6.  One point and one intensity per valid pixel.                       *)
(***************************************************************************)
\* the pixels of an image that are valid, as the property defines them
ValidPixels(image, filter) ==
    {rc \in UNION {{<<r, c>> : c \in DOMAIN image[r]} : r \in DOMAIN image} :
        /\ image[rc[1]][rc[2]][1] > 0
        /\ (~filter \/ image[rc[1]][rc[2]][4] # 1)}

RowMajorBefore(p, q) == p.row < q.row \/ (p.row = q.row /\ p.col < q.col)

\* C6: for every range image and both settings of the no-label-zone switch
\* the conversion yields exactly one point and one intensity per valid pixel
\* (range > 0 and, with the switch on, no-label-zone channel not 1) and none
\* for the others: as many points as intensities as valid pixels, in row-major
\* order, points[i] and intensity[i] from the same pixel.
C6_Thm ==
    ret # None =>
        LET out   == ret[1]
            valid == ValidPixels(range_image, FILTER_NO_LABEL_ZONE_POINTS)
        IN  /\ Len(out.points) = Cardinality(valid)
            /\ Len(out.intensity) = Cardinality(valid)
            /\ \A i \in 1..Len(out.points) :
                  /\ <<out.points[i].row, out.points[i].col>> \in valid
                  /\ out.points[i].range
                        = range_image[out.points[i].row][out.points[i].col][1]
                  /\ out.intensity[i]
                        = range_image[out.points[i].row][out.points[i].col][2]
            /\ \A i, j \in 1..Len(out.points) :
                  i < j => RowMajorBefore(out.points[i], out.points[j])

\* with the switch on, a pixel with positive range inside a no-label zone is
\* left out while another pixel of the image is kept
C6_Wit ==
    /\ ret # None
    /\ FILTER_NO_LABEL_ZONE_POINTS
    /\ range_image = << << <<5, 3, 0, 1>>, <<5, 4, 0, -1>> >> >>
    /\ ret[1].points = <<[row |-> 1, col |-> 2, range |-> 5]>>
    /\ ret[1].intensity = <<4>>

(***************************************************************************)
(* C7, C8, C9.  The point clouds of a frame.                               *)
(***************************************************************************)
lasers_calibrated == frame.laser_calibrations[1]

lasers_images == frame.range_images[1]

\* the point cloud messages of the frame held by frame
CloudMsgs ==
    SelectSeq(FrameMsgs(bag, ThisFrame),
              LAMBDA m : m.topic \in {PointCloudTopic(id) : id \in LaserNames})

\* write_point_cloud raised for the frame held by frame
PointCloudFailed == LasersRead /\ FailedAt = "write_point_cloud"

\* every laser with a calibration record has both range images
AllCalibratedHaveImages ==
    \A name \in lasers_calibrated : Len(lasers_images[name]) = 2

C7_State ==
    (LasersRead /\ \E id \in SELECTED_LIDAR_SENSOR : id \notin lasers_calibrated) =>
        /\ PointCloudFailed
        /\ exc.type \in {"ValueError", "AttributeError", "KeyError", "IndexError"}
        \* when the range images were converted, it is the concatenation that fails
        /\ (lasers_images[TOP] # <<>> /\ AllCalibratedHaveImages) => exc.type = "ValueError"
        /\ CloudMsgs = <<>>
        /\ \A k \in 1..Len(bag) :
              bag[k].frame_idx = frame_idx => bag[k].topic \in {"/odom", "/tf_static"}

C7_Step ==
    PointCloudFailed => (pc' = "raised" /\ bag' = bag)

\* C7: when a selected sensor has no entries in ret_dict for a frame (it has
\* no calibration record, so no range image of it was converted), the frame's
\* conversion fails in write_point_cloud, in the concatenation when the range
\* images were converted at all: no point cloud message of that sensor is
\* written for the frame, no later message of the frame is written, and the
\* unit's conversion stops.
C7_Thm == [](C7_State) /\ [][C7_Step]_vars

\* the top laser has both range images but no calibration record
C7_Wit ==
    /\ PointCloudFailed
    /\ exc.type = "ValueError"
    /\ TOP \notin lasers_calibrated
    /\ Len(lasers_images[TOP]) = 2
    /\ bag[Len(bag)].topic = "/tf_static"

\* the number of valid pixels of the range images of a laser
ValidCount(name) ==
    LET imgs == lasers_images[name]
    IN  Cardinality(ValidPixels(imgs[1], FILTER_NO_LABEL_ZONE_POINTS))
          + Cardinality(ValidPixels(imgs[2], FILTER_NO_LABEL_ZONE_POINTS))

\* C8: range images without a valid pixel, in one return or in both, are no
\* error: the conversion yields an empty point list and an empty intensity
\* list for them, and for a selected sensor the frame's conversion goes on and
\* writes one point cloud message, with as many points as the two returns have
\* valid pixels (none when they have none).
C8_Thm ==
    /\ \A name \in LaserNames : \A image \in FrameImages(name) :
          ValidPixels(image, FILTER_NO_LABEL_ZONE_POINTS) = {}
             => convert_one(image, FILTER_NO_LABEL_ZONE_POINTS)
                   = [points |-> <<>>, intensity |-> <<>>]
    /\ (LasersRead /\ SELECTED_LIDAR_SENSOR \subseteq lasers_calibrated
               /\ AllCalibratedHaveImages) =>
          /\ PointCloudDone
          /\ Len(CloudMsgs) = Cardinality(SELECTED_LIDAR_SENSOR)
          /\ \A id \in SELECTED_LIDAR_SENSOR :
                \E k \in 1..Len(CloudMsgs) :
                   /\ CloudMsgs[k].topic = PointCloudTopic(id)
                   /\ CloudMsgs[k].width = ValidCount(id)

\* neither return of the top laser has a valid pixel: a point cloud message
\* without points is written and write_image is next
C8_Wit ==
    /\ pc = "write_image"
    /\ lasers_images[TOP] = << << <<NoReturn>> >>, << <<NoReturn>> >> >>
    /\ bag[Len(bag)].topic = "/lidar/top/pointcloud"
    /\ bag[Len(bag)].width = 0

\* C9 as claimed: the sensors outside the selected set are skipped; when
\* every selected sensor has its calibration record and both range images the
\* point cloud conversion of the frame succeeds, whatever the calibration
\* records of the other sensors.
C9_Claimed ==
    (LasersRead /\ \A id \in SELECTED_LIDAR_SENSOR :
                      id \in lasers_calibrated /\ Len(lasers_images[id]) = 2)
       => PointCloudDone

\* C9, amended: every sensor that has a calibration record is converted,
\* selected or not.  A calibration record of any sensor whose range images
\* are missing (KeyError) or lack the second return (IndexError) makes the
\* frame's conversion fail before a point cloud is written; when every sensor
\* with a calibration record has both range images and every selected sensor
\* has a calibration record, one point cloud message is written per selected
\* sensor.
C9_Thm ==
    LasersRead =>
        /\ (\E name \in lasers_calibrated : Len(lasers_images[name]) < 2) =>
              /\ PointCloudFailed
              /\ exc.type \in {"KeyError", "IndexError", "AttributeError"}
              /\ CloudMsgs = <<>>
        \* the first incomplete record, in the order of the names, decides
        /\ \A name \in lasers_calibrated :
              (/\ lasers_images[TOP] # <<>>
               /\ Len(lasers_images[name]) < 2
               /\ \A other \in lasers_calibrated :
                     other < name => Len(lasers_images[other]) = 2)
                 => exc.type = IF lasers_images[name] = <<>> THEN "KeyError"
                                                             ELSE "IndexError"
        /\ (SELECTED_LIDAR_SENSOR \subseteq lasers_calibrated /\ AllCalibratedHaveImages) =>
              /\ PointCloudDone
              /\ Len(CloudMsgs) = Cardinality(SELECTED_LIDAR_SENSOR)

\* the selected top laser is complete; the calibration record of the front
\* laser, which is not selected, has no range image, and the frame fails
C9_Wit ==
    /\ PointCloudFailed
    /\ exc.type = "KeyError"
    /\ lasers_calibrated = {TOP, FRONT}
    /\ Len(lasers_images[TOP]) = 2
    /\ lasers_images[FRONT] = <<>>
    /\ FRONT \notin SELECTED_LIDAR_SENSOR

=============================================================================
